---- MODULE Spec2Model ----
(***************************************************************************)
(* A model of bgg-climbers: the multi-snapshot program (src/main.go, first *)
(* package), the two-snapshot rank-ratio and log-ratio programs            *)
(* (src/unnamed/part_001) and the two-snapshot CSV diff (src/main.go,      *)
(* second package).                                                        *)
(*                                                                         *)
(* CSV field texts are sequences of one-character strings, so that         *)
(* strconv.Atoi and strconv.ParseFloat are modelled by what they accept    *)
(* and return.  float64 values are exact rationals plus +Inf, -Inf and     *)
(* NaN; rounding is not modelled.  Record fields that the programs only    *)
(* copy to the output (Name, Year, URL, Thumbnail) are left out.           *)
(***************************************************************************)
EXTENDS Integers, Sequences, FiniteSets, TLC

VARIABLES
    nra,        \* NewRatingAverage call: [pc, oldRecord, newRecord, result]
    ms,         \* multi-snapshot program state (src/main.go:455-581)
    ts          \* two-snapshot program state (src/unnamed/part_001, src/main.go:675-781)

vars == <<nra, ms, ts>>

(***************************************************************************)
(* Bounds of the model.                                                    *)
(***************************************************************************)
\* Rows of one snapshot file after its header row.
MaxRows == 2
\* Rows of all the snapshot files of one run of the multi-snapshot program.
MaxTotalRows == 4
\* Largest value of the maxperiods flag.
MaxPeriodsFlag == 3
\* Largest magnitude of the period flag (days).
MaxPeriod == 1
\* Rows after the header of one file of a three-game run of the rank-ratio
\* program.
MaxDispRows == 3
\* Rows of all the snapshot files of one run in the specification of the
\* file discovery.
MaxFindRows == 2
\* Rows of all the snapshot files of one run in the specification of the
\* loading errors.
MaxLoadRows == 3

(***************************************************************************)
(* float64 values.                                                         *)
(***************************************************************************)
RECURSIVE GCD(_, _)
GCD(a, b) == IF b = 0 THEN a ELSE GCD(b, a % b)

Abs(x) == IF x < 0 THEN -x ELSE x

\* The finite value n/d (d # 0), in lowest terms with a positive denominator.
Fin(n, d) ==
    LET g == GCD(Abs(n), Abs(d))
        s == IF d < 0 THEN -1 ELSE 1
    IN  [k |-> "fin", n |-> s * (n \div g), d |-> s * (d \div g)]

PInf == [k |-> "pinf", n |-> 0, d |-> 1]
NInf == [k |-> "ninf", n |-> 0, d |-> 1]
NaN  == [k |-> "nan", n |-> 0, d |-> 1]
\* A nil *float64.
Nil  == [k |-> "nil", n |-> 0, d |-> 1]

FromInt(i) == Fin(i, 1)

\* a < b on float64: false whenever either side is NaN.
FLess(a, b) ==
    CASE a.k = "nan" \/ b.k = "nan" -> FALSE
      [] a.k = "pinf" -> FALSE
      [] b.k = "ninf" -> FALSE
      [] a.k = "ninf" -> TRUE
      [] b.k = "pinf" -> TRUE
      [] OTHER -> a.n * b.d < b.n * a.d

\* a == b on float64: false whenever either side is NaN.
FEq(a, b) == a.k # "nan" /\ b.k # "nan" /\ a = b

FLeq(a, b) == FLess(a, b) \/ FEq(a, b)

FGeq(a, b) == FLeq(b, a)

\* a - b on float64.
FSub(a, b) ==
    CASE a.k = "nan" \/ b.k = "nan" -> NaN
      [] a.k = "pinf" -> IF b.k = "pinf" THEN NaN ELSE PInf
      [] a.k = "ninf" -> IF b.k = "ninf" THEN NaN ELSE NInf
      [] b.k = "pinf" -> NInf
      [] b.k = "ninf" -> PInf
      [] OTHER -> Fin(a.n * b.d - b.n * a.d, a.d * b.d)

\* a * b on float64, for finite operands (the only ones multiplied).
FMul(a, b) ==
    IF a.k = "fin" /\ b.k = "fin" THEN Fin(a.n * b.n, a.d * b.d) ELSE NaN

\* a / b on float64, for finite operands: x/0 is +Inf or -Inf, 0/0 is NaN.
FDiv(a, b) ==
    CASE a.k # "fin" \/ b.k # "fin" -> NaN
      [] b.n = 0 -> IF a.n > 0 THEN PInf ELSE IF a.n < 0 THEN NInf ELSE NaN
      [] OTHER -> Fin(a.n * b.d, a.d * b.n)

\* math.Min and math.Max (a NaN operand gives NaN).
FMin(a, b) ==
    IF a.k = "nan" \/ b.k = "nan" THEN NaN ELSE IF FLess(b, a) THEN b ELSE a

FMax(a, b) ==
    IF a.k = "nan" \/ b.k = "nan" THEN NaN ELSE IF FLess(a, b) THEN b ELSE a

(***************************************************************************)
(* strconv.Atoi and strconv.ParseFloat on field texts.                     *)
(***************************************************************************)
Digits == <<"0", "1", "2", "3", "4", "5", "6", "7", "8", "9">>

IsDigit(c) == \E i \in 1..Len(Digits) : Digits[i] = c

DigitVal(c) == (CHOOSE i \in 1..Len(Digits) : Digits[i] = c) - 1

RECURSIVE DigitsVal(_)
DigitsVal(s) ==
    IF s = <<>> THEN 0
    ELSE DigitsVal(SubSeq(s, 1, Len(s) - 1)) * 10 + DigitVal(s[Len(s)])

RECURSIVE Pow10(_)
Pow10(e) == IF e = 0 THEN 1 ELSE 10 * Pow10(e - 1)

Signed(s) == Len(s) > 0 /\ s[1] \in {"-", "+"}

Unsigned(s) == IF Signed(s) THEN Tail(s) ELSE s

\* strconv.Atoi: an optional sign and one or more decimal digits; anything
\* else is a syntax error, reported with the value 0.
Atoi(s) ==
    LET body == Unsigned(s)
        ok   == Len(body) >= 1 /\ \A i \in 1..Len(body) : IsDigit(body[i])
        mag  == IF ok THEN DigitsVal(body) ELSE 0
    IN  [ok |-> ok, v |-> IF ok /\ s[1] = "-" THEN -mag ELSE mag]

\* strconv.ParseFloat on decimal texts: an optional sign, digits with at most
\* one point, at least one digit; anything else is a syntax error, reported
\* with the value 0.
ParseFloat(s) ==
    LET body == Unsigned(s)
        dots == {i \in 1..Len(body) : body[i] = "."}
        digs == SelectSeq(body, IsDigit)
        ok   == /\ Cardinality(dots) <= 1
                /\ Len(digs) >= 1
                /\ \A i \in 1..Len(body) : IsDigit(body[i]) \/ body[i] = "."
        frac == IF dots = {} THEN 0 ELSE Len(body) - (CHOOSE i \in dots : TRUE)
        mag  == IF ok THEN DigitsVal(digs) ELSE 0
    IN  [ok |-> ok,
         v  |-> IF ok THEN Fin(IF s[1] = "-" THEN -mag ELSE mag, Pow10(frac))
                ELSE FromInt(0)]

(***************************************************************************)
(* NewRatingAverage (src/main.go:231-255).                                 *)
(***************************************************************************)
MinNewRatingRatio == Fin(5, 100)

\* The guard without its test of the share of new ratings.
NotGrownOnly(oldRatings, newRatings) == FLeq(newRatings, oldRatings)

\* The guard that suppresses the value.
NotEnoughNewRatings(oldRatings, newRatings) ==
    \/ FLeq(newRatings, oldRatings)
    \/ FLess(FDiv(FSub(newRatings, oldRatings), newRatings), MinNewRatingRatio)

\* The value returned when the old and new averages are equal.
SameAverage(newAverage) == newAverage

\* The weighted delta left as computed, outside the rating scale or not.
Unclamped(x) == x

\* math.Max(1, math.Min(10, x)).
Clamp(x) == FMax(FromInt(1), FMin(FromInt(10), x))

NewRatingAverage(oldRecord, newRecord) ==
    LET oldRatings == ParseFloat(oldRecord.UsersRated).v
        oldAverage == ParseFloat(oldRecord.Average).v
        newRatings == ParseFloat(newRecord.UsersRated).v
        newAverage == ParseFloat(newRecord.Average).v
    IN  IF NotEnoughNewRatings(oldRatings, newRatings) THEN Nil
        ELSE IF FEq(oldAverage, newAverage) THEN SameAverage(newAverage)
        ELSE Clamp(FDiv(FSub(FMul(newAverage, newRatings),
                             FMul(oldAverage, oldRatings)),
                        FSub(newRatings, oldRatings)))

(***************************************************************************)
(* Inputs of the multi-snapshot program: flags and snapshot files.         *)
(***************************************************************************)
Ids == {"a", "b"}

RankTexts == {<<"0">>, <<"1">>, <<"2">>}

\* A CSV row: nf is its number of fields; the texts are the fields the
\* programs read.
Row(nf, id, rank, average, bayes, usersRated) ==
    [nf |-> nf, ID |-> id, Rank |-> rank, Average |-> average,
     BayesAverage |-> bayes, UsersRated |-> usersRated]

\* A well-formed data row of game id at the given rank.
GoodRow(id, rank) ==
    Row(9, id, rank,
        IF rank = <<"1">> THEN <<"8", ".", "0">> ELSE <<"7">>,
        CASE rank = <<"1">> -> <<"7", ".", "5">>
          [] rank = <<"2">> -> <<"7">>
          [] OTHER -> <<"5", ".", "5">>,
        IF id = "b" /\ rank = <<"1">> THEN <<>> ELSE <<"1", "5", "0">>)

\* A row whose rank is no integer.
BadRankRow == Row(9, "a", <<"x">>, <<"7">>, <<"7">>, <<"1", "5", "0">>)

\* The header row of a snapshot file.
HeaderRow == Row(9, "ID", <<"R", "a", "n", "k">>, <<>>, <<>>, <<>>)

\* A header row of 8 fields and one of 10 fields.
ShortHeader == Row(8, "ID", <<"R", "a", "n", "k">>, <<>>, <<>>, <<>>)

WideHeader == Row(10, "ID", <<"R", "a", "n", "k">>, <<>>, <<>>, <<>>)

\* The rows snapshot files are made of: both games ranked, game a unranked,
\* and a row that does not parse.
RowPool ==
    {GoodRow(id, r) : id \in Ids, r \in RankTexts \ {<<"0">>}}
        \cup {GoodRow("a", <<"0">>), BadRankRow}

RECURSIVE SeqsUpTo(_, _)
SeqsUpTo(S, n) ==
    IF n = 0 THEN {<<>>}
    ELSE LET shorter == SeqsUpTo(S, n - 1)
         IN  shorter \cup {Append(q, x) : q \in {p \in shorter : Len(p) = n - 1}, x \in S}

\* The contents a snapshot file may have when at most n data rows are left.
FileContents(n) ==
    {<<>>} \cup {<<HeaderRow>> \o d : d \in SeqsUpTo(RowPool, IF n < MaxRows THEN n ELSE MaxRows)}

\* A row of 8 fields whose rank is no integer.
ShortBadRow == Row(8, "a", <<"x">>, <<"7">>, <<"7">>, <<"1", "5", "0">>)

\* A row of 10 fields whose Bayesian average is no decimal.
BadBayesRow == Row(10, "a", <<"1">>, <<"7">>, <<"7", ",", "5">>, <<"1", "5", "0">>)

\* Rows after the first of the files with malformed rows: game a ranked, a
\* short row and the two rows that do not parse.
LoadRowPool == {GoodRow("a", <<"1">>), ShortBadRow, BadRankRow, BadBayesRow}

\* First rows of those files: the header, a row of game b that would parse,
\* a row that would not, and headers of 8 and of 10 fields.
LoadFirstRows == {HeaderRow, GoodRow("b", <<"2">>), BadRankRow, ShortHeader, WideHeader}

\* The contents such a file may have when at most n rows after the first
\* are left.
LoadContents(n) ==
    {<<>>} \cup {<<first>> \o d : first \in LoadFirstRows,
                                 d \in SeqsUpTo(LoadRowPool, IF n < MaxRows THEN n ELSE MaxRows)}

Periods == (-MaxPeriod)..MaxPeriod

\* The date of the file named on the command line, in days.
StartDate == 10

Dates == (StartDate - MaxPeriod * MaxPeriodsFlag)..(StartDate + MaxPeriod * MaxPeriodsFlag)

ModeRank == "rank"
ModeBayes == "bayes"
Modes == {ModeRank, ModeBayes}

(***************************************************************************)
(* ParseRecord and ParseFile (src/main.go:109-158, 429-453).               *)
(***************************************************************************)
SrcThumbnail == 8

\* ParseRecord: the Record of a row, or an error.
ParseRecord(row) ==
    LET rank  == Atoi(row.Rank)
        bayes == ParseFloat(row.BayesAverage)
    IN  IF row.nf <= SrcThumbnail \/ ~rank.ok \/ ~bayes.ok
        THEN [ok |-> FALSE, rec |-> <<>>]
        ELSE [ok |-> TRUE,
              rec |-> [ID |-> row.ID, Rank |-> rank.v, Average |-> row.Average,
                       BayesAverage |-> bayes.v, UsersRated |-> row.UsersRated]]

\* csv.Reader.Read with FieldsPerRecord left at 0 (lines 127-134): a row
\* after the first whose number of fields is not that of the first row is
\* returned with ErrFieldCount.
WrongFieldCount(first, row) == row.nf # first.nf

\* Every row of the file is read without error.
ReadsCleanly(rows) == \A i \in 2..Len(rows) : ~WrongFieldCount(rows[1], rows[i])

\* A row of fewer than 9 fields is skipped by ParseFile.
TooShort(row) == row.nf <= SrcThumbnail

\* The rows ParseFile hands to ParseRecord: all but the first, short ones dropped.
DataRows(rows) ==
    IF rows = <<>> THEN <<>> ELSE SelectSeq(Tail(rows), LAMBDA r : ~TooShort(r))

RECURSIVE MaxRankOf(_)
MaxRankOf(recs) ==
    IF recs = <<>> THEN 0
    ELSE LET m == MaxRankOf(Tail(recs))
         IN  IF Head(recs).Rank > m THEN Head(recs).Rank ELSE m

\* ParseFile of the file dated date with the given rows: the File, or an
\* error as soon as one row is not read or does not parse.
ParseFile(date, rows) ==
    LET data == DataRows(rows)
        ok   == /\ ReadsCleanly(rows)
                /\ \A i \in 1..Len(data) : ParseRecord(data[i]).ok
        recs == [i \in 1..Len(data) |-> ParseRecord(data[i]).rec]
    IN  IF ok
        THEN [ok |-> TRUE,
              file |-> [Date |-> date, MaxRank |-> MaxRankOf(recs), Records |-> recs]]
        ELSE [ok |-> FALSE, file |-> [Date |-> date, MaxRank |-> 0, Records |-> <<>>]]

(***************************************************************************)
(* Scores (src/main.go:198-229, 265-307).                                  *)
(***************************************************************************)
\* ClimbScoreRank: float64(oldRank) / float64(newRank).
ClimbScoreRank(oldRank, newRank) == FDiv(FromInt(oldRank), FromInt(newRank))

\* ClimbScoreBayes: newBayes - oldBayes.
ClimbScoreBayes(oldBayes, newBayes) == FSub(newBayes, oldBayes)

ClimbScore(old, new, mode) ==
    IF mode = ModeRank THEN ClimbScoreRank(old.Rank, new.Rank)
    ELSE ClimbScoreBayes(old.BayesAverage, new.BayesAverage)

\* Records[i] of a Game, i counted from 0 as in the source.
Rec(g, i) == g.Records[i + 1]

\* Game.ClimbScore: the newest record against the one before it.
GameClimbScore(g, mode) == ClimbScore(Rec(g, 1), Rec(g, 0), mode)

ModePivot(mode) == IF mode = ModeRank THEN FromInt(1) ELSE FromInt(0)

\* ClimbScorePercString: the value printed, (1 - perc) * 100.
ClimbScorePerc(climbScore) ==
    LET perc == IF FLess(FromInt(1), climbScore)
                THEN FDiv(FromInt(1), climbScore) ELSE climbScore
    IN  FMul(FSub(FromInt(1), perc), FromInt(100))

\* ClimbScoreAbsString: the value printed, math.Abs(climbScore).
ClimbScoreAbs(climbScore) ==
    IF FLess(climbScore, FromInt(0)) THEN FSub(FromInt(0), climbScore) ELSE climbScore

ClimbScoreFormatted(climbScore, mode) ==
    IF mode = ModeRank THEN ClimbScorePerc(climbScore) ELSE ClimbScoreAbs(climbScore)

\* ClimbScoreString: the arrow and the formatted score.
ClimbScoreString(climbScore, mode) ==
    [arrow |-> IF FLess(ModePivot(mode), climbScore) THEN "up"
               ELSE IF FLess(climbScore, ModePivot(mode)) THEN "down" ELSE "-",
     value |-> ClimbScoreFormatted(climbScore, mode)]

(***************************************************************************)
(* Rendering of a Game (src/main.go:173-191, 257-263, 330-405).  Each      *)
(* printed score carries the offsets of the two records it compares.       *)
(***************************************************************************)
RECURSIVE NatText(_)
NatText(i) ==
    IF i < 10 THEN <<Digits[i + 1]>> ELSE Append(NatText(i \div 10), Digits[(i % 10) + 1])

\* strconv.Itoa.
Itoa(i) == IF i < 0 THEN <<"-">> \o NatText(-i) ELSE NatText(i)

\* Record.RankString: the empty text for no rank.
RankString(r) == IF r.Rank = 0 THEN <<>> ELSE Itoa(r.Rank)

EmptyStr == <<"N", "/", "A">>

StrOrNA(s) == IF s = <<>> THEN EmptyStr ELSE s

\* The score of Records[old] against Records[new], as printed.
ScoreCell(g, old, new, mode) ==
    [made |-> TRUE, old |-> old, new |-> new,
     str |-> ClimbScoreString(ClimbScore(Rec(g, old), Rec(g, new), mode), mode)]

\* The empty COLOR tag printed for the oldest row.
BlankCell ==
    [made |-> FALSE, old |-> 0, new |-> 0,
     str |-> [arrow |-> "", value |-> FromInt(0)]]

\* The offset of the record the title line compares the newest record with.
TitleOld(g) == 1

\* The offset of the record the "since" line compares the newest record with.
SinceOld(g) == Len(g.Records) - 1

\* A table row compared with the newest record instead of the one before it.
RowOldNewest(g, offset) == 0

\* The offset of the record a table row at offset is compared with.
RowOld(g, offset) == offset + 1

\* Game.ClimbScoreString(offset, mode).
GameClimbScoreString(g, offset, mode) ==
    IF offset = Len(g.Records) - 1 THEN BlankCell
    ELSE ScoreCell(g, RowOld(g, offset), offset, mode)

\* Game.DescriptionRow(offset, mode).
DescriptionRow(g, offset, mode) ==
    LET record == Rec(g, offset)
    IN  [Date |-> record.Date,
         Rank |-> StrOrNA(RankString(record)),
         Average |-> StrOrNA(record.Average),
         NewAverage |-> IF offset < Len(g.Records) - 1
                        THEN NewRatingAverage(Rec(g, offset + 1), record)
                        ELSE Nil,
         BayesAverage |-> record.BayesAverage,
         UsersRated |-> StrOrNA(record.UsersRated),
         Change |-> GameClimbScoreString(g, offset, mode)]

\* Game.DescriptionRows: the rows of the table, oldest first.
DescriptionRows(g, mode) ==
    LET l == Len(g.Records)
    IN  [i \in 1..l |-> DescriptionRow(g, l - i, mode)]

\* Game.Description(mode).
Description(g, mode) ==
    [Title |-> ScoreCell(g, TitleOld(g), 0, mode),
     Since |-> ScoreCell(g, SinceOld(g), 0, mode),
     SinceDate |-> Rec(g, Len(g.Records) - 1).Date,
     Rows |-> DescriptionRows(g, mode)]

\* Game.ToCSVRecord(mode).
ToCSVRecord(g, mode) ==
    [ID |-> Rec(g, 0).ID,
     Description |-> Description(g, mode),
     ClimbRatio |-> GameClimbScore(g, mode)]

(***************************************************************************)
(* The join and the sort (src/main.go:413-427, 523-562).                   *)
(***************************************************************************)
GameRecord(rec, date) ==
    [ID |-> rec.ID, Rank |-> rec.Rank, Average |-> rec.Average,
     BayesAverage |-> rec.BayesAverage, UsersRated |-> rec.UsersRated,
     Date |-> date]

\* m[key] = value.
Put(m, key, value) ==
    [x \in (DOMAIN m) \cup {key} |-> IF x = key THEN value ELSE m[x]]

EmptyMap == [x \in {} |-> 0]

\* A record of the latest file starts a Game.
SeedsGame(record) == record.Rank > 0

\* The loop over files[0].Records.
RECURSIVE SeedGames(_, _, _)
SeedGames(recs, date, gm) ==
    IF recs = <<>> THEN gm
    ELSE SeedGames(Tail(recs), date,
                   IF SeedsGame(Head(recs))
                   THEN Put(gm, Head(recs).ID,
                            [Records |-> <<GameRecord(Head(recs), date)>>])
                   ELSE gm)

\* The join without its test of the rank.
JoinsGameAnyRank(gm, record) == record.ID \in DOMAIN gm

\* A record of an older file is appended to its Game.
JoinsGame(gm, record) == record.ID \in DOMAIN gm /\ record.Rank > 0

\* The loop over the records of one older file.
RECURSIVE JoinRecords(_, _, _)
JoinRecords(recs, date, gm) ==
    IF recs = <<>> THEN gm
    ELSE JoinRecords(Tail(recs), date,
                     IF JoinsGame(gm, Head(recs))
                     THEN Put(gm, Head(recs).ID,
                              [Records |-> Append(gm[Head(recs).ID].Records,
                                                  GameRecord(Head(recs), date))])
                     ELSE gm)

\* The test without the users-rated count.
RetainedAnyRatings(g, minRatings) == Len(g.Records) > 1

\* The test a Game passes to be appended to games.
Retained(g, minRatings) ==
    Len(g.Records) > 1 /\ Atoi(Rec(g, 0).UsersRated).v >= minRatings

\* ByRank.Less and ByBayes.Less on two Games.
GameLess(g, h, mode) ==
    IF mode = ModeRank
    THEN FLess(ClimbScoreRank(Rec(g, 1).Rank, Rec(g, 0).Rank),
               ClimbScoreRank(Rec(h, 1).Rank, Rec(h, 0).Rank))
    ELSE FLess(ClimbScoreBayes(Rec(g, 1).BayesAverage, Rec(g, 0).BayesAverage),
               ClimbScoreBayes(Rec(h, 1).BayesAverage, Rec(h, 0).BayesAverage))

\* GamesByClimbScore.Less and Games.Less of the two-snapshot programs.
ClimbScoreLess(g, h) == FLess(g.ClimbScore, h.ClimbScore)

\* GamesByUsersRated.Less: by the new users-rated count, 0 when unparseable.
UsersRatedLess(g, h) == Atoi(g.New.UsersRated).v < Atoi(h.New.UsersRated).v

\* Less of the sort.Interface named by: a Mode (ByRank, ByBayes), "climb"
\* (GamesByClimbScore, Games) or "users" (GamesByUsersRated).
SliceLess(by, g, h) ==
    CASE by \in Modes -> GameLess(g, h, by)
      [] by = "climb" -> ClimbScoreLess(g, h)
      [] OTHER -> UsersRatedLess(g, h)

\* sort.Reverse(x).Less(i, j) is x.Less(j, i).
ReverseLess(by, g, h) == SliceLess(by, h, g)

\* sort.Sort on a slice of at most 12 elements is an insertion sort: each
\* element moves left while it is Less than its left neighbour.
RECURSIVE InsertGame(_, _, _)
InsertGame(sorted, g, by) ==
    IF sorted = <<>> THEN <<g>>
    ELSE LET last == sorted[Len(sorted)]
         IN  IF ReverseLess(by, g, last)
             THEN Append(InsertGame(SubSeq(sorted, 1, Len(sorted) - 1), g, by), last)
             ELSE Append(sorted, g)

RECURSIVE SortGamesFrom(_, _, _)
SortGamesFrom(sorted, rest, by) ==
    IF rest = <<>> THEN sorted
    ELSE SortGamesFrom(InsertGame(sorted, Head(rest), by), Tail(rest), by)

\* sort.Sort(sort.Reverse(x)).
SortReverse(games, by) == SortGamesFrom(<<>>, games, by)

\* The orders in which a range over a map may visit its keys.
Orders(S) ==
    {p \in [1..Cardinality(S) -> S] : \A i, j \in 1..Cardinality(S) : p[i] = p[j] => i = j}

\* games after the range over gamesMap in the given order and the sort.
SortedGames(gm, order, minRatings, mode) ==
    SortReverse(SelectSeq([i \in 1..Len(order) |-> gm[order[i]]],
                          LAMBDA g : Retained(g, minRatings)),
                mode)

(***************************************************************************)
(* The multi-snapshot program, main (src/main.go:455-581).                 *)
(***************************************************************************)
MinRatingsFlags == {-1, 0}

\* What the command line names: no file, a file whose name is no date, or
\* the file dated StartDate.
ArgKinds == {"none", "baddate", "dated"}

\* The state main starts in; pool names the rows the files of the run are
\* made of and budget is the number of data rows they hold together at most.
MsStart(pool, budget) ==
    [pc |-> "flags", mode |-> ModeRank, minRatings |-> -1, period |-> 0,
     maxPeriods |-> 0, pool |-> pool, budget |-> budget,
     dirState |-> [d \in Dates |-> "unread"],
     dirRows |-> [d \in Dates |-> <<>>],
     timeIter |-> 0, files |-> <<>>, next |-> 0,
     gamesMap |-> EmptyMap, games |-> <<>>, header |-> FALSE, out |-> <<>>]

MsInit == ms = MsStart("games", MaxTotalRows)

\* The default of the minratings flag for a mode.
DefaultMinRatings(mode) == IF mode = ModeRank THEN 100 ELSE 0

\* Flags and argument (lines 464-497).
ParseFlags ==
    /\ ms.pc = "flags"
    /\ \E mode \in Modes \cup {"other"}, minRatings \in MinRatingsFlags,
          period \in Periods, maxPeriods \in 0..MaxPeriodsFlag, arg \in ArgKinds :
         ms' = [ms EXCEPT
                  !.mode = mode,
                  !.minRatings = IF mode \in Modes /\ minRatings = -1
                                 THEN DefaultMinRatings(mode) ELSE minRatings,
                  !.period = period,
                  !.maxPeriods = maxPeriods,
                  !.timeIter = IF mode \in Modes /\ arg = "dated" THEN StartDate ELSE 0,
                  !.pc = IF mode \in Modes /\ arg = "dated" THEN "load" ELSE "fatal"]
    /\ UNCHANGED <<nra, ts>>

\* Data rows of the files read so far.
RowsRead ==
    LET RECURSIVE Sum(_)
        Sum(D) == IF D = {} THEN 0
                  ELSE LET d == CHOOSE x \in D : TRUE
                       IN  (IF ms.dirRows[d] = <<>> THEN 0 ELSE Len(ms.dirRows[d]) - 1)
                           + Sum(D \ {d})
    IN  Sum(Dates)

\* The rows the file of a date may hold: what was read before, or any content.
ContentsAt(d) ==
    IF ms.dirState[d] = "file" THEN {ms.dirRows[d]}
    ELSE IF ms.dirState[d] = "unread"
         THEN IF ms.pool = "load" THEN LoadContents(ms.budget - RowsRead)
              ELSE FileContents(ms.budget - RowsRead)
    ELSE {}

\* After the loop: fewer than two files is fatal (lines 519-521).
AfterLoad(files) == IF Len(files) < 2 THEN "fatal" ELSE "seed"

\* The loop ends because maxperiods files are loaded (lines 499-501).
LoadStop ==
    /\ ms.pc = "load"
    /\ Len(ms.files) >= ms.maxPeriods
    /\ ms' = [ms EXCEPT !.pc = AfterLoad(ms.files)]
    /\ UNCHANGED <<nra, ts>>

\* The loop ends because the file of timeIter does not exist (lines 505-508).
LoadMissing ==
    /\ ms.pc = "load"
    /\ Len(ms.files) < ms.maxPeriods
    /\ ms.dirState[ms.timeIter] \in {"unread", "missing"}
    /\ ms' = [ms EXCEPT !.dirState[ms.timeIter] = "missing",
                        !.pc = AfterLoad(ms.files)]
    /\ UNCHANGED <<nra, ts>>

\* A loop that never leaves the date it started on.
SameDate(timeIter, period) == timeIter

\* The date the loop looks at after a file dated timeIter (line 516).
NextDate(timeIter, period) == timeIter - period

\* The file of timeIter exists and parses (lines 510-516).
LoadFile ==
    /\ ms.pc = "load"
    /\ Len(ms.files) < ms.maxPeriods
    /\ \E rows \in ContentsAt(ms.timeIter) :
         /\ ParseFile(ms.timeIter, rows).ok
         /\ ms' = [ms EXCEPT !.dirState[ms.timeIter] = "file",
                             !.dirRows[ms.timeIter] = rows,
                             !.files = Append(@, ParseFile(ms.timeIter, rows).file),
                             !.timeIter = NextDate(@, ms.period)]
    /\ UNCHANGED <<nra, ts>>

\* The file of timeIter exists and does not parse (lines 510-513).
LoadFail ==
    /\ ms.pc = "load"
    /\ Len(ms.files) < ms.maxPeriods
    /\ \E rows \in ContentsAt(ms.timeIter) :
         /\ ~ParseFile(ms.timeIter, rows).ok
         /\ ms' = [ms EXCEPT !.dirState[ms.timeIter] = "file",
                             !.dirRows[ms.timeIter] = rows,
                             !.pc = "fatal"]
    /\ UNCHANGED <<nra, ts>>

\* gamesMap from the latest file (lines 524-534).
Seed ==
    /\ ms.pc = "seed"
    /\ ms' = [ms EXCEPT !.gamesMap = SeedGames(ms.files[1].Records, ms.files[1].Date, EmptyMap),
                        !.next = 2,
                        !.pc = "join"]
    /\ UNCHANGED <<nra, ts>>

\* One older file joined (one pass of the loop of lines 535-545).
JoinFile ==
    /\ ms.pc = "join"
    /\ ms.next <= Len(ms.files)
    /\ ms' = [ms EXCEPT !.gamesMap = JoinRecords(ms.files[ms.next].Records,
                                                 ms.files[ms.next].Date, @),
                        !.next = @ + 1]
    /\ UNCHANGED <<nra, ts>>

\* The results the range over gamesMap and the sort may have.
SortOutcomes ==
    {SortedGames(ms.gamesMap, order, ms.minRatings, ms.mode) :
        order \in Orders(DOMAIN ms.gamesMap)}

\* games built and sorted (lines 546-562).
SortGames ==
    /\ ms.pc = "join"
    /\ ms.next > Len(ms.files)
    /\ \E sorted \in SortOutcomes :
         ms' = [ms EXCEPT !.games = sorted, !.pc = "header"]
    /\ UNCHANGED <<nra, ts>>

\* The header row (lines 565-574).
WriteHeader ==
    /\ ms.pc = "header"
    /\ ms' = [ms EXCEPT !.header = TRUE, !.pc = "rows", !.next = 1]
    /\ UNCHANGED <<nra, ts>>

\* One row written (one pass of the loop of lines 576-580).
WriteRow ==
    /\ ms.pc = "rows"
    /\ ms.next <= Len(ms.games)
    /\ ms' = [ms EXCEPT !.out = Append(@, ToCSVRecord(ms.games[ms.next], ms.mode)),
                        !.next = @ + 1]
    /\ UNCHANGED <<nra, ts>>

\* main returns.
Finish ==
    /\ ms.pc = "rows"
    /\ ms.next > Len(ms.games)
    /\ ms' = [ms EXCEPT !.pc = "done"]
    /\ UNCHANGED <<nra, ts>>

(***************************************************************************)
(* The two-snapshot programs: rank ratio (src/unnamed/part_001:1-403),     *)
(* log ratio (src/unnamed/part_001:405-635) and CSV diff                   *)
(* (src/main.go:583-781).  A finite log-ratio score ln(a) - ln(b) is held  *)
(* as the ratio a/b whose logarithm it is, which orders the same way.      *)
(***************************************************************************)
Variants == {"ratio", "log", "csv"}

\* A row that is too short.
ShortRow == Row(8, "a", <<"1">>, <<"7">>, <<"7">>, <<>>)

\* A data row of the two-snapshot files: the users-rated count depends on
\* the game and its rank.
TwoRow(id, rank) ==
    Row(9, id, rank, <<"7">>, <<"7">>,
        IF id = "a" THEN <<"1", "5", "0">>
        ELSE IF rank = <<"1">> THEN <<>>
        ELSE IF rank = <<"2">> THEN <<"9", "9">> ELSE <<"1", "0", "0">>)

TwoRowPool ==
    {TwoRow(id, r) : id \in Ids, r \in RankTexts} \cup {ShortRow, BadRankRow}

\* Rows of three games for the rank-ratio program: a at ranks 1 and 4, b at
\* ranks 2 and 3, c at ranks 3 and 4, each with at least 100 users rated.
DispRow(id, rank) ==
    Row(9, id, rank, <<"7">>, <<"7">>,
        IF id = "b" THEN <<"1", "0", "0">> ELSE <<"1", "5", "0">>)

DispRowPool ==
    {DispRow("a", <<"1">>), DispRow("a", <<"4">>),
     DispRow("b", <<"2">>), DispRow("b", <<"3">>),
     DispRow("c", <<"3">>), DispRow("c", <<"4">>)}

\* The rows the files of a run are made of, and how many a file may hold.
RowPoolOf(pool) == IF pool = "disp" THEN DispRowPool ELSE TwoRowPool

\* The first rows the files of a run may have.
FirstRowsOf(pool) == IF pool = "disp" THEN {HeaderRow} ELSE {HeaderRow, ShortHeader}

MaxRowsOf(pool) == IF pool = "disp" THEN MaxDispRows ELSE MaxRows

\* ParseRecord of the two-snapshot programs: only the rank is parsed.
ParseRecordTwo(row) ==
    LET rank == Atoi(row.Rank)
    IN  IF row.nf <= SrcThumbnail \/ ~rank.ok
        THEN [ok |-> FALSE, rec |-> <<>>]
        ELSE [ok |-> TRUE,
              rec |-> [ID |-> row.ID, Rank |-> rank.v, Average |-> row.Average,
                       BayesAverage |-> row.BayesAverage,
                       UsersRated |-> row.UsersRated]]

\* The zero Record and the zero Game.
ZeroRecord ==
    [ID |-> "", Rank |-> 0, Average |-> <<>>, BayesAverage |-> <<>>, UsersRated |-> <<>>]

ZeroGame == [Old |-> ZeroRecord, New |-> ZeroRecord, ClimbScore |-> FromInt(0)]

\* A lookup that forgets the Game the map holds.
FreshGame(m, key) == ZeroGame

\* m[key], the zero Game for a key the map does not hold.
GameAt(m, key) == IF key \in DOMAIN m THEN m[key] ELSE ZeroGame

\* The rank used with the substitution left out.
FallbackRankNever(rank, fallbackRank) == rank

\* The rank used in place of rank: the fallback for rank 0.
FallbackRank(rank, fallbackRank) == IF rank = 0 THEN fallbackRank ELSE rank

\* math.Log(float64(a)) - math.Log(float64(b)) for ranks a, b >= 0.
LogDiff(a, b) ==
    IF a = 0 /\ b = 0 THEN NaN
    ELSE IF a = 0 THEN NInf
    ELSE IF b = 0 THEN PInf
    ELSE Fin(a, b)

\* Game.CalcClimbScore of the rank-ratio and the log-ratio program.
CalcClimbScore(variant, g, fallbackRank) ==
    LET oldRank == FallbackRank(g.Old.Rank, fallbackRank)
        newRank == FallbackRank(g.New.Rank, fallbackRank)
    IN  IF variant = "ratio" THEN FDiv(FromInt(oldRank), FromInt(newRank))
        ELSE LogDiff(oldRank, newRank)

\* The fallback rank main passes to CalcClimbScore, or, in the CSV diff, to
\* ToCSVRecord.
FallbackPassed(variant, maxRank) ==
    CASE variant = "ratio" -> maxRank \div 2
      [] variant = "log" -> maxRank
      [] OTHER -> maxRank + 1

\* The state main starts the scan of the old file in.
TsStart(v, pool) ==
    [pc |-> "scan", variant |-> v, pool |-> pool, phase |-> "old",
     hasReadHeader |-> FALSE, oldFile |-> <<>>, newFile |-> <<>>,
     games |-> EmptyMap, maxRank |-> 0,
     gamesSlice |-> <<>>, gamesByOldRank |-> EmptyMap,
     next |-> 0, out |-> <<>>]

TsInit(variants) == \E v \in variants : ts = TsStart(v, "two")

\* The rows read so far from the file being scanned.
RowsOf(phase) == IF phase = "old" THEN ts.oldFile ELSE ts.newFile

\* ts with one more row read from the file being scanned.
ReadRow(row) ==
    IF ts.phase = "old" THEN [ts EXCEPT !.oldFile = Append(@, row)]
    ELSE [ts EXCEPT !.newFile = Append(@, row)]

\* The reader returns io.EOF: the old file is followed by the new one, the
\* new one by the scoring.
ScanEOF ==
    /\ ts.pc = "scan"
    /\ ts' = IF ts.phase = "old"
             THEN [ts EXCEPT !.phase = "new", !.hasReadHeader = FALSE]
             ELSE [ts EXCEPT !.pc = "score"]
    /\ UNCHANGED <<nra, ms>>

\* The first row of a file is dropped.
ScanHeader ==
    /\ ts.pc = "scan"
    /\ ~ts.hasReadHeader
    /\ \E first \in FirstRowsOf(ts.pool) :
         ts' = [ReadRow(first) EXCEPT !.hasReadHeader = TRUE]
    /\ UNCHANGED <<nra, ms>>

\* The reader returns ErrFieldCount for a row: fatal.
ScanReadError ==
    /\ ts.pc = "scan"
    /\ ts.hasReadHeader
    /\ Len(RowsOf(ts.phase)) <= MaxRowsOf(ts.pool)
    /\ \E row \in RowPoolOf(ts.pool) :
         /\ WrongFieldCount(RowsOf(ts.phase)[1], row)
         /\ ts' = [ReadRow(row) EXCEPT !.pc = "fatal"]
    /\ UNCHANGED <<nra, ms>>

\* A row of fewer than 9 fields is dropped.
ScanShort ==
    /\ ts.pc = "scan"
    /\ ts.hasReadHeader
    /\ Len(RowsOf(ts.phase)) <= MaxRowsOf(ts.pool)
    /\ \E row \in RowPoolOf(ts.pool) :
         /\ ~WrongFieldCount(RowsOf(ts.phase)[1], row)
         /\ TooShort(row)
         /\ ts' = ReadRow(row)
    /\ UNCHANGED <<nra, ms>>

\* The Game of a row's identifier with the row on the side being scanned.
WithRecord(phase, g, rec) ==
    IF phase = "old" THEN [g EXCEPT !.Old = rec] ELSE [g EXCEPT !.New = rec]

\* A data row is parsed into its Game.
ScanRow ==
    /\ ts.pc = "scan"
    /\ ts.hasReadHeader
    /\ Len(RowsOf(ts.phase)) <= MaxRowsOf(ts.pool)
    /\ \E row \in RowPoolOf(ts.pool) :
         /\ ~WrongFieldCount(RowsOf(ts.phase)[1], row)
         /\ ~TooShort(row)
         /\ ParseRecordTwo(row).ok
         /\ LET rec == ParseRecordTwo(row).rec
            IN  ts' = [ReadRow(row) EXCEPT
                         !.games = Put(@, row.ID,
                                       WithRecord(ts.phase, GameAt(@, row.ID), rec)),
                         !.maxRank = IF rec.Rank > @ THEN rec.Rank ELSE @]
    /\ UNCHANGED <<nra, ms>>

\* A data row does not parse: fatal.
ScanBad ==
    /\ ts.pc = "scan"
    /\ ts.hasReadHeader
    /\ Len(RowsOf(ts.phase)) <= MaxRowsOf(ts.pool)
    /\ \E row \in RowPoolOf(ts.pool) :
         /\ ~WrongFieldCount(RowsOf(ts.phase)[1], row)
         /\ ~TooShort(row)
         /\ ~ParseRecordTwo(row).ok
         /\ ts' = [ReadRow(row) EXCEPT !.pc = "fatal"]
    /\ UNCHANGED <<nra, ms>>

\* The Games of the map in the order the range visits them, each with its
\* ClimbScore set (the CSV diff keeps no score).
ScoredGames(variant, games, order, maxRank) ==
    [i \in 1..Len(order) |->
        IF variant = "csv" THEN games[order[i]]
        ELSE [games[order[i]] EXCEPT
                !.ClimbScore = CalcClimbScore(variant, games[order[i]],
                                              FallbackPassed(variant, maxRank))]]

\* gamesByOldRank after the range: a later Game replaces an earlier one of
\* the same old rank.
RECURSIVE ByOldRank(_, _)
ByOldRank(scored, m) ==
    IF scored = <<>> THEN m
    ELSE ByOldRank(Tail(scored),
                   IF Head(scored).Old.Rank # 0
                   THEN Put(m, Head(scored).Old.Rank, Head(scored))
                   ELSE m)

\* The slice the output loop walks: sorted by descending ClimbScore, or, in
\* the CSV diff, in the order of the range over the map.
OutputOrder(variant, scored) ==
    IF variant = "csv" THEN scored ELSE SortReverse(scored, "climb")

\* Scores set, slice built and sorted (part_001:367-377, 621-627); the CSV
\* diff only ranges over the map (main.go:776).
TsScore ==
    /\ ts.pc = "score"
    /\ \E order \in Orders(DOMAIN ts.games) :
         LET scored == ScoredGames(ts.variant, ts.games, order, ts.maxRank)
         IN  ts' = [ts EXCEPT
                      !.gamesSlice = OutputOrder(ts.variant, scored),
                      !.gamesByOldRank = IF ts.variant = "ratio"
                                         THEN ByOldRank(scored, EmptyMap) ELSE @,
                      !.next = 1,
                      !.pc = "rows"]
    /\ UNCHANGED <<nra, ms>>

MinUsersRated == 100

\* The filter without its test of the users-rated count.
SkippedUnrankedOnly(variant, g) ==
    variant = "ratio" /\ (g.Old.Rank = 0 \/ g.New.Rank = 0)

\* The rank-ratio program writes no row for a Game that gained or lost its
\* rank or has too few ratings (part_001:383-389).
Skipped(variant, g) ==
    /\ variant = "ratio"
    /\ \/ g.Old.Rank = 0
       \/ g.New.Rank = 0
       \/ ~Atoi(g.New.UsersRated).ok
       \/ Atoi(g.New.UsersRated).v < MinUsersRated

\* The test without the comparison of og's new rank with its own old rank.
IsBehind(g, og) == og.New.Rank # 0 /\ og.New.Rank > g.New.Rank

\* The former holder og of an old rank was displaced by g.
IsDisplaced(g, og) ==
    og.New.Rank # 0 /\ og.New.Rank > g.New.Rank /\ og.New.Rank > og.Old.Rank

\* The loop over the old ranks r .. g.Old.Rank (part_001:391-397).
RECURSIVE DisplacedFrom(_, _, _)
DisplacedFrom(g, r, byOldRank) ==
    IF r > g.Old.Rank THEN <<>>
    ELSE LET og == GameAt(byOldRank, r)
         IN  (IF IsDisplaced(g, og) THEN <<og>> ELSE <<>>)
                 \o DisplacedFrom(g, r + 1, byOldRank)

\* The displaced games of g, sorted by descending users-rated count.
Displaced(g, byOldRank) ==
    SortReverse(DisplacedFrom(g, g.New.Rank + 1, byOldRank), "users")

\* The row written for a Game.
TwoCSVRecord(variant, g, maxRank, byOldRank) ==
    [ID |-> IF variant # "csv" /\ g.Old.ID = "" THEN g.New.ID ELSE g.Old.ID,
     OldRank |-> IF variant = "csv"
                 THEN Itoa(FallbackRank(g.Old.Rank, FallbackPassed(variant, maxRank)))
                 ELSE RankString(g.Old),
     NewRank |-> IF variant = "csv"
                 THEN Itoa(FallbackRank(g.New.Rank, FallbackPassed(variant, maxRank)))
                 ELSE RankString(g.New),
     OldUsersRated |-> g.Old.UsersRated,
     NewUsersRated |-> g.New.UsersRated,
     Score |-> IF variant = "csv"
               THEN LogDiff(FallbackRank(g.Old.Rank, FallbackPassed(variant, maxRank)),
                            FallbackRank(g.New.Rank, FallbackPassed(variant, maxRank)))
               ELSE g.ClimbScore,
     Displaced |-> IF variant = "ratio" THEN Displaced(g, byOldRank) ELSE <<>>]

\* The output loop passes over a Game without writing it.
TsSkipRow ==
    /\ ts.pc = "rows"
    /\ ts.next <= Len(ts.gamesSlice)
    /\ Skipped(ts.variant, ts.gamesSlice[ts.next])
    /\ ts' = [ts EXCEPT !.next = @ + 1]
    /\ UNCHANGED <<nra, ms>>

\* The output loop writes the row of a Game.
TsWriteRow ==
    /\ ts.pc = "rows"
    /\ ts.next <= Len(ts.gamesSlice)
    /\ ~Skipped(ts.variant, ts.gamesSlice[ts.next])
    /\ ts' = [ts EXCEPT
                !.out = Append(@, TwoCSVRecord(ts.variant, ts.gamesSlice[ts.next],
                                               ts.maxRank, ts.gamesByOldRank)),
                !.next = @ + 1]
    /\ UNCHANGED <<nra, ms>>

\* main returns.
TsFinish ==
    /\ ts.pc = "rows"
    /\ ts.next > Len(ts.gamesSlice)
    /\ ts' = [ts EXCEPT !.pc = "done"]
    /\ UNCHANGED <<nra, ms>>

(***************************************************************************)
(* A call of NewRatingAverage on two Records.                              *)
(***************************************************************************)
RatingTexts ==
    {<<>>, <<"x">>, <<"1">>, <<"2">>, <<"1", "9">>, <<"2", "0">>, <<"9", "9">>,
     <<"1", "0", "0">>, <<"1", "5", "0">>}

AverageTexts ==
    {<<>>, <<"6">>, <<"7">>, <<"7", ".", "5">>, <<"8", ".", "0">>, <<"1", "0">>,
     <<"0", ".", "5">>}

RatedRecord(average, usersRated) ==
    [ID |-> "", Rank |-> 0, Average |-> average, BayesAverage |-> FromInt(0),
     UsersRated |-> usersRated]

NraIdle ==
    [pc |-> "idle", oldRecord |-> RatedRecord(<<>>, <<>>),
     newRecord |-> RatedRecord(<<>>, <<>>), result |-> Nil]

NraInit ==
    \E oa, na \in AverageTexts, ou, nu \in RatingTexts :
        nra = [pc |-> "call", oldRecord |-> RatedRecord(oa, ou),
               newRecord |-> RatedRecord(na, nu), result |-> Nil]

CallNewRatingAverage ==
    /\ nra.pc = "call"
    /\ nra' = [nra EXCEPT !.result = NewRatingAverage(nra.oldRecord, nra.newRecord),
                          !.pc = "ret"]
    /\ UNCHANGED <<ms, ts>>

(***************************************************************************)
(* Specifications.                                                         *)
(***************************************************************************)
MsIdle == [pc |-> "idle"]

TsIdle == [pc |-> "idle"]

\* The multi-snapshot program.
Init == MsInit /\ nra = NraIdle /\ ts = TsIdle

Next ==
    \/ ParseFlags
    \/ LoadStop
    \/ LoadMissing
    \/ LoadFile
    \/ LoadFail
    \/ Seed
    \/ JoinFile
    \/ SortGames
    \/ WriteHeader
    \/ WriteRow
    \/ Finish

Spec == Init /\ [][Next]_vars

\* One pass of the file loop of main (lines 498-517).
LoadStep == LoadStop \/ LoadMissing \/ LoadFile \/ LoadFail

\* The multi-snapshot program on smaller files; main is one sequential
\* process, so a pass of the file loop that can be taken is taken.
InitFind == ms = MsStart("games", MaxFindRows) /\ nra = NraIdle /\ ts = TsIdle

SpecFair == InitFind /\ [][Next]_vars /\ WF_vars(LoadStep)

\* The multi-snapshot program on files with malformed rows.
InitLoad == ms = MsStart("load", MaxLoadRows) /\ nra = NraIdle /\ ts = TsIdle

SpecLoad == InitLoad /\ [][Next]_vars

\* The two-snapshot programs.
InitTwo == TsInit(Variants) /\ nra = NraIdle /\ ms = MsIdle

NextTwo ==
    \/ ScanEOF
    \/ ScanHeader
    \/ ScanReadError
    \/ ScanShort
    \/ ScanRow
    \/ ScanBad
    \/ TsScore
    \/ TsSkipRow
    \/ TsWriteRow
    \/ TsFinish

SpecTwo == InitTwo /\ [][NextTwo]_vars

\* The rank-ratio program on files of three games, all rows well formed.
InitDisp == ts = TsStart("ratio", "disp") /\ nra = NraIdle /\ ms = MsIdle

NextDisp ==
    \/ ScanEOF
    \/ ScanHeader
    \/ ScanRow
    \/ TsScore
    \/ TsSkipRow
    \/ TsWriteRow
    \/ TsFinish

SpecDisp == InitDisp /\ [][NextDisp]_vars

\* NewRatingAverage on its own.
InitNra == NraInit /\ ms = MsIdle /\ ts = TsIdle

NextNra == CallNewRatingAverage

SpecNra == InitNra /\ [][NextNra]_vars

(***************************************************************************)
(* Properties of the multi-snapshot program (under Spec).                  *)
(***************************************************************************)
\* The join is over: every loaded file has been processed.
JoinDone == ms.pc \in {"header", "rows", "done"}

\* The ranked records of an identifier in a file.
RankedRows(id, file) ==
    {i \in 1..Len(file.Records) : file.Records[i].ID = id /\ file.Records[i].Rank > 0}

RECURSIVE RankedInOlder(_, _)
RankedInOlder(id, k) ==
    IF k > Len(ms.files) THEN 0
    ELSE Cardinality(RankedRows(id, ms.files[k])) + RankedInOlder(id, k + 1)

\* C1: after the join an identifier has a Game exactly when the latest file
\* holds a ranked record of it; every later record of a Game is a ranked
\* record of that identifier in an older file; and each older file adds one
\* record per ranked row of the identifier and none when the identifier is
\* missing from it or unranked in it.
C1_Join ==
    JoinDone =>
        /\ \A id \in Ids \cup {"ID"} :
              id \in DOMAIN ms.gamesMap <=> RankedRows(id, ms.files[1]) # {}
        /\ \A id \in DOMAIN ms.gamesMap :
              LET records == ms.gamesMap[id].Records
              IN  /\ \A i \in 2..Len(records) :
                        \E k \in 2..Len(ms.files) :
                            \E j \in RankedRows(id, ms.files[k]) :
                                records[i] = GameRecord(ms.files[k].Records[j],
                                                        ms.files[k].Date)
                  /\ Len(records) = 1 + RankedInOlder(id, 2)

\* A game ranked in the first and third of three files and absent from the
\* second one ends with two records.
C1_Gap ==
    /\ ms.pc = "done"
    /\ Len(ms.files) = 3
    /\ ms.files[2].Records # <<>>
    /\ \E id \in DOMAIN ms.gamesMap :
          /\ \A i \in 1..Len(ms.files[2].Records) : ms.files[2].Records[i].ID # id
          /\ Cardinality(RankedRows(id, ms.files[3])) = 1
          /\ Len(ms.gamesMap[id].Records) = 2

\* Records is ordered newest to oldest.
NewestFirst(records) ==
    \A i, j \in 1..Len(records) : i < j => records[i].Date >= records[j].Date

\* C2: in every Game, during the join and after it, Records[0] is the
\* record of the most recent loaded file and Records is ordered newest to
\* oldest.
C2_NewestFirst ==
    /\ \A id \in DOMAIN ms.gamesMap :
          /\ ms.gamesMap[id].Records[1].Date = ms.files[1].Date
          /\ \A k \in 1..Len(ms.files) : ms.files[k].Date <= ms.files[1].Date
          /\ NewestFirst(ms.gamesMap[id].Records)
    /\ \A i \in 1..Len(ms.games) :
          /\ ms.games[i].Records[1].Date = ms.files[1].Date
          /\ NewestFirst(ms.games[i].Records)

\* The same ordering for the runs whose period flag is not negative, the
\* ones that step backward in time (or stay on one date).
C2_BackwardOnly == ms.period >= 0 => C2_NewestFirst

\* The scores printed in a written row.
CellsOf(row) ==
    {c \in {row.Description.Title, row.Description.Since}
              \cup {row.Description.Rows[i].Change : i \in 1..Len(row.Description.Rows)} :
        c.made}

Adjacent(c) == c.old = c.new + 1

\* C3 as claimed: every score printed for a Game compares two neighbours
\* of its Records.
C3_AdjacentOnly ==
    \A n \in 1..Len(ms.out) : \A c \in CellsOf(ms.out[n]) : Adjacent(c)

\* C3: every score printed for a Game compares two neighbours of its
\* Records, except the one of the "since" line, which compares the oldest
\* record with the newest.
C3_AdjacentOrSince ==
    \A n \in 1..Len(ms.out) :
        LET d == ms.out[n].Description
        IN  /\ d.Title.old = 1 /\ d.Title.new = 0
            /\ d.Since.old = Len(d.Rows) - 1 /\ d.Since.new = 0
            /\ \A i \in 1..Len(d.Rows) :
                  /\ d.Rows[i].Change.made <=> i > 1
                  /\ d.Rows[i].Change.made =>
                        /\ d.Rows[i].Change.new = Len(d.Rows) - i
                        /\ Adjacent(d.Rows[i].Change)

\* A Game of three records has been written.
C3_ThreeRecords ==
    \E n \in 1..Len(ms.out) : Len(ms.out[n].Description.Rows) >= 3

\* A users-rated count, 0 when it is empty or no integer.
UsersRatedOrZero(text) == IF Atoi(text).ok THEN Atoi(text).v ELSE 0

\* C4: every Game of the sorted slice, and so every row written, has more
\* than one record and a newest users-rated count of at least minRatings.
C4_Retention ==
    JoinDone =>
        /\ \A i \in 1..Len(ms.games) :
              /\ Len(ms.games[i].Records) > 1
              /\ UsersRatedOrZero(ms.games[i].Records[1].UsersRated) >= ms.minRatings
              /\ ms.games[i] = ms.gamesMap[ms.games[i].Records[1].ID]
        /\ Len(ms.out) <= Len(ms.games)
        /\ \A n \in 1..Len(ms.out) : ms.out[n] = ToCSVRecord(ms.games[n], ms.mode)

\* A run that wrote a row and left out a Game of several records for its
\* users-rated count.
C4_LeftOut ==
    /\ ms.pc = "done"
    /\ ms.out # <<>>
    /\ \E id \in DOMAIN ms.gamesMap :
          /\ Len(ms.gamesMap[id].Records) > 1
          /\ UsersRatedOrZero(ms.gamesMap[id].Records[1].UsersRated) < ms.minRatings
          /\ \A i \in 1..Len(ms.games) : ms.games[i].Records[1].ID # id

\* C6: the sorted slice is determined by the input: the range over the map
\* and the sort have one outcome.
C6_Deterministic ==
    (ms.pc = "join" /\ ms.next > Len(ms.files)) => Cardinality(SortOutcomes) = 1

(***************************************************************************)
(* Properties of the two-snapshot programs (under SpecTwo).                *)
(***************************************************************************)
Scored == ts.pc \in {"rows", "done"}

\* The ranks of the Games of the slice, old and new.
RanksOf(g) == {g.Old.Rank, g.New.Rank}

\* The rank the claim expects to be used.
ExpectedRank(r, f) == IF r = 0 THEN f ELSE r

\* The score of the Games of the slice is the one of the expected ranks.
ScoresOfExpected ==
    LET f == FallbackPassed(ts.variant, ts.maxRank)
    IN  /\ ts.variant = "ratio" =>
              \A i \in 1..Len(ts.gamesSlice) :
                  ts.gamesSlice[i].ClimbScore =
                      FDiv(FromInt(ExpectedRank(ts.gamesSlice[i].Old.Rank, f)),
                           FromInt(ExpectedRank(ts.gamesSlice[i].New.Rank, f)))
        /\ ts.variant = "log" =>
              \A i \in 1..Len(ts.gamesSlice) :
                  ts.gamesSlice[i].ClimbScore =
                      LogDiff(ExpectedRank(ts.gamesSlice[i].Old.Rank, f),
                              ExpectedRank(ts.gamesSlice[i].New.Rank, f))
        /\ ts.variant = "csv" =>
              \A n \in 1..Len(ts.out) :
                  /\ ts.out[n].OldRank = Itoa(ExpectedRank(ts.gamesSlice[n].Old.Rank, f))
                  /\ ts.out[n].NewRank = Itoa(ExpectedRank(ts.gamesSlice[n].New.Rank, f))

\* C7 as claimed: the rank used equals the fallback if and only if the rank
\* is 0, and equals the rank otherwise.
C7_FallbackIffZero ==
    Scored =>
        /\ ScoresOfExpected
        /\ \A i \in 1..Len(ts.gamesSlice) : \A r \in RanksOf(ts.gamesSlice[i]) :
              LET f == FallbackPassed(ts.variant, ts.maxRank)
              IN  /\ FallbackRank(r, f) = f <=> r = 0
                  /\ r # 0 => FallbackRank(r, f) = r

\* C7: the rank used equals the fallback if the rank is 0 and equals the
\* rank otherwise, so it equals the fallback if and only if the rank is 0
\* or is the fallback itself.
C7_Fallback ==
    Scored =>
        /\ ScoresOfExpected
        /\ \A i \in 1..Len(ts.gamesSlice) : \A r \in RanksOf(ts.gamesSlice[i]) :
              LET f == FallbackPassed(ts.variant, ts.maxRank)
              IN  /\ r = 0 => FallbackRank(r, f) = f
                  /\ r # 0 => FallbackRank(r, f) = r
                  /\ FallbackRank(r, f) = f <=> (r = 0 \/ r = f)

\* A run with an unranked side and with a ranked side whose rank is the
\* fallback.
C7_BothCases ==
    /\ ts.pc = "done"
    /\ \E i \in 1..Len(ts.gamesSlice) : 0 \in RanksOf(ts.gamesSlice[i])
    /\ \E i \in 1..Len(ts.gamesSlice) : \E r \in RanksOf(ts.gamesSlice[i]) :
          r # 0 /\ r = FallbackPassed(ts.variant, ts.maxRank)

\* C8: in the rank-ratio and the log-ratio program both ranks used in a
\* score are non-zero and the score is finite.
C8_NoDivisionByZero ==
    (Scored /\ ts.variant \in {"ratio", "log"}) =>
        \A i \in 1..Len(ts.gamesSlice) :
            /\ \A r \in RanksOf(ts.gamesSlice[i]) :
                  FallbackRank(r, FallbackPassed(ts.variant, ts.maxRank)) # 0
            /\ ts.gamesSlice[i].ClimbScore.k = "fin"

\* C5: the rows written are in descending order of score.
C5_Descending ==
    (ts.pc = "done" /\ ts.variant \in {"ratio", "log"}) =>
        \A i, j \in 1..Len(ts.out) : i < j => FGeq(ts.out[i].Score, ts.out[j].Score)

(***************************************************************************)
(* Properties of NewRatingAverage (under SpecNra).                         *)
(***************************************************************************)
OldRatings == ParseFloat(nra.oldRecord.UsersRated).v
NewRatings == ParseFloat(nra.newRecord.UsersRated).v

\* newRatings - oldRatings, times the (positive) denominators of both.
Growth == NewRatings.n * OldRatings.d - OldRatings.n * NewRatings.d

\* (newRatings - oldRatings) / newRatings < 0.05, newRatings not 0.
ShareBelowMinimum ==
    \/ NewRatings.n > 0 /\ 20 * Growth < NewRatings.n * OldRatings.d
    \/ NewRatings.n < 0 /\ 20 * Growth > NewRatings.n * OldRatings.d

C10_InRange ==
    (nra.pc = "ret" /\ nra.result # Nil) =>
        FLeq(FromInt(1), nra.result) /\ FLeq(nra.result, FromInt(10))

OldAverage == ParseFloat(nra.oldRecord.Average).v
NewAverage == ParseFloat(nra.newRecord.Average).v

\* (newAvg*newRatings - oldAvg*oldRatings) / (newRatings - oldRatings).
WeightedDelta ==
    FDiv(FSub(FMul(NewAverage, NewRatings), FMul(OldAverage, OldRatings)),
         FSub(NewRatings, OldRatings))

\* x brought into the rating scale [1, 10].
InScale(x) ==
    IF FLess(x, FromInt(1)) THEN FromInt(1)
    ELSE IF FLess(FromInt(10), x) THEN FromInt(10)
    ELSE x

\* The call returned, on an old Record (oa, ou) and a new Record (na, nu).
Returned(oa, ou, na, nu) ==
    /\ nra.pc = "ret"
    /\ nra.oldRecord.Average = oa /\ nra.oldRecord.UsersRated = ou
    /\ nra.newRecord.Average = na /\ nra.newRecord.UsersRated = nu

\* C11: a value NewRatingAverage returns is the common average when the
\* old and new averages are equal and the weighted delta brought into
\* [1, 10] otherwise; (10, 1) and (7.5, 2) give 5, (7, 1) and (7, 2) give 7,
\* (7.5, 100) and (8.0, 150) give 9.
C11_Value ==
    /\ (nra.pc = "ret" /\ nra.result # Nil) =>
          nra.result = IF FEq(OldAverage, NewAverage) THEN NewAverage
                       ELSE InScale(WeightedDelta)
    /\ Returned(<<"1", "0">>, <<"1">>, <<"7", ".", "5">>, <<"2">>) =>
          nra.result = FromInt(5)
    /\ Returned(<<"7">>, <<"1">>, <<"7">>, <<"2">>) => nra.result = FromInt(7)
    /\ Returned(<<"7", ".", "5">>, <<"1", "0", "0">>, <<"8", ".", "0">>, <<"1", "5", "0">>) =>
          nra.result = FromInt(9)

\* The call on (7.5, 100) and (8.0, 150) returned 9.
C11_NineOfFifty ==
    /\ Returned(<<"7", ".", "5">>, <<"1", "0", "0">>, <<"8", ".", "0">>, <<"1", "5", "0">>)
    /\ nra.result = FromInt(9)

\* C12: with an unchanged users-rated count and different averages
\* NewRatingAverage returns the average of the new Record.
C12_UnchangedCount ==
    (nra.pc = "ret" /\ FEq(NewRatings, OldRatings) /\ ~FEq(OldAverage, NewAverage)) =>
        nra.result = NewAverage

(***************************************************************************)
(* Further properties of the two-snapshot programs (under SpecTwo).        *)
(***************************************************************************)
\* The identifier a Game is written under.
WrittenID(g) == IF g.Old.ID = "" THEN g.New.ID ELSE g.Old.ID

\* Both ranks non-zero and a new users-rated count that is an integer >= 100.
PassesFilter(g) ==
    /\ g.Old.Rank # 0
    /\ g.New.Rank # 0
    /\ Atoi(g.New.UsersRated).ok
    /\ Atoi(g.New.UsersRated).v >= 100

\* The Games of the sorted slice that have a row in the output.
WrittenGames ==
    {i \in 1..Len(ts.gamesSlice) :
        \E n \in 1..Len(ts.out) : ts.out[n].ID = WrittenID(ts.gamesSlice[i])}

\* C13: the rank-ratio program writes a row only for a Game whose old and
\* new ranks are non-zero and whose new users-rated count is an integer of
\* at least 100, and once it is done it has written one row for each such
\* Game; a Game ranked in the old file and absent from the new one has new
\* rank 0 and no row.
C13_Filter ==
    (Scored /\ ts.variant = "ratio") =>
        /\ \A n \in 1..Len(ts.out) :
              \E i \in 1..Len(ts.gamesSlice) :
                  /\ ts.out[n].ID = WrittenID(ts.gamesSlice[i])
                  /\ PassesFilter(ts.gamesSlice[i])
        /\ \A i \in 1..Len(ts.gamesSlice) :
              (ts.gamesSlice[i].Old.Rank # 0 /\ ts.gamesSlice[i].New = ZeroRecord) =>
                  /\ ts.gamesSlice[i].New.Rank = 0
                  /\ i \notin WrittenGames
        /\ ts.pc = "done" =>
              /\ WrittenGames = {i \in 1..Len(ts.gamesSlice) : PassesFilter(ts.gamesSlice[i])}
              /\ Len(ts.out) = Cardinality(WrittenGames)

\* A finished rank-ratio run that wrote a row and left out a Game ranked in
\* the old file and absent from the new one.
C13_LostRank ==
    /\ ts.pc = "done" /\ ts.variant = "ratio"
    /\ ts.out # <<>>
    /\ \E i \in 1..Len(ts.gamesSlice) :
          /\ ts.gamesSlice[i].Old.Rank # 0
          /\ ts.gamesSlice[i].New = ZeroRecord
          /\ i \notin WrittenGames

\* The Game of the sorted slice a row was written for.
GameOfRow(row) ==
    ts.gamesSlice[CHOOSE i \in 1..Len(ts.gamesSlice) :
                      WrittenID(ts.gamesSlice[i]) = row.ID]

\* The Games the old-rank index holds at the positions g climbed past,
\* pushed down behind g: new rank non-zero, above g's and above their own
\* old rank.
PushedDownBy(g) ==
    {og \in {ts.gamesByOldRank[r] :
                r \in DOMAIN ts.gamesByOldRank \cap ((g.New.Rank + 1)..g.Old.Rank)} :
        og.New.Rank # 0 /\ og.New.Rank > g.New.Rank /\ og.New.Rank > og.Old.Rank}

\* C14: the old-rank index holds, at a rank, a Game of that old rank; the
\* displaced list of a written Game g holds exactly the Games of the index
\* at the ranks r, g.New.Rank < r <= g.Old.Rank, whose new rank is non-zero,
\* greater than g's new rank and greater than their own old rank; g is not
\* in its own list and no Game is in it twice.
C14_Displaced ==
    (Scored /\ ts.variant = "ratio") =>
        /\ \A r \in DOMAIN ts.gamesByOldRank :
              /\ ts.gamesByOldRank[r].Old.Rank = r
              /\ \E i \in 1..Len(ts.gamesSlice) : ts.gamesSlice[i] = ts.gamesByOldRank[r]
        /\ \A n \in 1..Len(ts.out) :
              LET displaced == ts.out[n].Displaced
              IN  /\ {displaced[k] : k \in 1..Len(displaced)}
                        = PushedDownBy(GameOfRow(ts.out[n]))
                  /\ \A k \in 1..Len(displaced) :
                        WrittenID(displaced[k]) # ts.out[n].ID
                  /\ \A j, k \in 1..Len(displaced) :
                        j # k => WrittenID(displaced[j]) # WrittenID(displaced[k])

\* A written Game that displaced two others.
C14_TwoDisplaced ==
    \E n \in 1..Len(ts.out) : Len(ts.out[n].Displaced) = 2

\* Both files have been scanned to their end.
ScanDone == ts.pc \in {"score", "rows", "done"}

\* The data rows of a file: after the first row, with 9 fields or more.
DataIndexes(file) == {i \in 2..Len(file) : file[i].nf >= 9}

IdsIn(file) == {file[i].ID : i \in DataIndexes(file)}

\* The record of the last data row of an identifier in a file, the zero
\* Record when the file has none.
SideOf(id, file) ==
    IF id \in IdsIn(file)
    THEN LET last == CHOOSE i \in DataIndexes(file) :
                        /\ file[i].ID = id
                        /\ \A j \in DataIndexes(file) : file[j].ID = id => j <= i
         IN  [ID |-> id, Rank |-> Atoi(file[last].Rank).v,
              Average |-> file[last].Average,
              BayesAverage |-> file[last].BayesAverage,
              UsersRated |-> file[last].UsersRated]
    ELSE [ID |-> "", Rank |-> 0, Average |-> <<>>, BayesAverage |-> <<>>,
          UsersRated |-> <<>>]

\* C15: once both files are scanned the identifiers of the data rows of
\* either file are the keys of games, one Game each; the Old side of a Game
\* is the record of a row of the old file with its identifier and the New
\* side the one of a row of the new file, and the side of a file the
\* identifier is not in is the zero Record.
C15_Join ==
    ScanDone =>
        /\ DOMAIN ts.games = IdsIn(ts.oldFile) \cup IdsIn(ts.newFile)
        /\ \A id \in DOMAIN ts.games :
              /\ ts.games[id].Old = SideOf(id, ts.oldFile)
              /\ ts.games[id].New = SideOf(id, ts.newFile)
        /\ Scored =>
              /\ Len(ts.gamesSlice) = Cardinality(DOMAIN ts.games)
              /\ \A id \in DOMAIN ts.games :
                    Cardinality({i \in 1..Len(ts.gamesSlice) :
                                    /\ ts.gamesSlice[i].Old = ts.games[id].Old
                                    /\ ts.gamesSlice[i].New = ts.games[id].New}) = 1

\* Both files scanned: one game in both of them, another in the new file
\* only.
C15_OneSided ==
    /\ ScanDone
    /\ \E id \in IdsIn(ts.oldFile) \cap IdsIn(ts.newFile) :
          ts.games[id].Old.ID = id /\ ts.games[id].New.ID = id
    /\ \E id \in IdsIn(ts.newFile) \ IdsIn(ts.oldFile) :
          ts.games[id].Old.ID = "" /\ ts.games[id].New.ID = id

(***************************************************************************)
(* File discovery of the multi-snapshot program (under SpecFair).          *)
(***************************************************************************)
\* The file loop is over.
LoopOver == ms.pc \notin {"flags", "load"}

\* The date the loop would have looked at next.
DateAfter(k) == StartDate - k * ms.period

\* What holds of the files loaded, during the loop and after it.
DiscoveryInv ==
    /\ Len(ms.files) <= ms.maxPeriods
    /\ \A k \in 1..Len(ms.files) :
          /\ ms.files[k].Date = DateAfter(k - 1)
          /\ ms.dirState[ms.files[k].Date] = "file"
    /\ (LoopOver /\ ms.pc # "fatal") =>
          /\ Len(ms.files) >= 2
          /\ \/ Len(ms.files) = ms.maxPeriods
             \/ ms.dirState[DateAfter(Len(ms.files))] = "missing"
    /\ (LoopOver /\ Len(ms.files) < 2) => ms.pc = "fatal"
    /\ ms.pc = "fatal" =>
          /\ ~ms.header /\ ms.out = <<>>
          /\ Len(ms.files) >= 2 =>
                /\ ms.dirState[ms.timeIter] = "file"
                /\ ~ParseFile(ms.timeIter, ms.dirRows[ms.timeIter]).ok

ParsedIndexes(rows) == {i \in 2..Len(rows) : rows[i].nf >= 9}

\* The n-th parsed row of a file, in file order.
NthParsed(rows, n) ==
    CHOOSE i \in ParsedIndexes(rows) :
        Cardinality({j \in ParsedIndexes(rows) : j <= i}) = n

\* The rank of the row is a base-10 integer and its Bayesian average a decimal.
WellFormed(row) == Atoi(row.Rank).ok /\ ParseFloat(row.BayesAverage).ok

\* The file has a parsed row with a malformed rank or Bayesian average.
Malformed(rows) == \E i \in ParsedIndexes(rows) : ~WellFormed(rows[i])

\* The dates whose file the run has read.
ReadDates == {d \in Dates : ms.dirState[d] = "file"}

\* The file of date d is among the loaded files.
Loaded(d) == \E k \in 1..Len(ms.files) : ms.files[k].Date = d

\* The Records of every loaded file are exactly its rows after the first
\* that have 9 fields or more, each with the rank and the Bayesian average
\* its well-formed texts denote.
RecordsFromRows ==
    \A k \in 1..Len(ms.files) :
        LET rows == ms.dirRows[ms.files[k].Date]
            recs == ms.files[k].Records
        IN  /\ Len(recs) = Cardinality(ParsedIndexes(rows))
            /\ \A n \in 1..Len(recs) :
                  LET row == rows[NthParsed(rows, n)]
                  IN  /\ WellFormed(row)
                      /\ recs[n].ID = row.ID
                      /\ recs[n].Rank = Atoi(row.Rank).v
                      /\ recs[n].BayesAverage = ParseFloat(row.BayesAverage).v
                      /\ recs[n].Average = row.Average
                      /\ recs[n].UsersRated = row.UsersRated

\* The file of date d was not loaded and the run is in the fatal state with
\* no header and no row written.
FailedLoad(d) == ~Loaded(d) /\ ms.pc = "fatal" /\ ~ms.header /\ ms.out = <<>>

\* C17: the Records of a loaded file are exactly its rows after the first
\* that have 9 fields or more, none with a malformed rank or Bayesian
\* average; a file read with a parsed row whose rank is no integer or whose
\* Bayesian average is no decimal is not loaded and leaves the run in the
\* fatal state with no header and no row written; every other file read is
\* loaded, whatever its first row and its rows of fewer than 9 fields hold.
C17_Loading ==
    /\ RecordsFromRows
    /\ \A d \in ReadDates :
          IF Malformed(ms.dirRows[d]) THEN FailedLoad(d) ELSE Loaded(d)

\* What holds of the loading: the load also fails for a file with a row
\* whose number of fields is not that of its first row, so a row of fewer
\* than 9 fields is skipped only in a file whose first row is as short.
C17_LoadingOfReadRows ==
    /\ RecordsFromRows
    /\ \A d \in ReadDates :
          IF Malformed(ms.dirRows[d]) \/ ~ReadsCleanly(ms.dirRows[d])
          THEN FailedLoad(d) ELSE Loaded(d)

\* A loaded file of 8-field rows only: its rows are skipped.
C17_ShortRowsSkipped ==
    \E k \in 1..Len(ms.files) :
        /\ ms.dirRows[ms.files[k].Date] = <<ShortHeader, ShortBadRow>>
        /\ ms.files[k].Records = <<>>

\* A file with a 9-field first row and an 8-field row after it was read and
\* the run is not in the fatal state.
C17_ShortRowAfterHeader ==
    \E d \in ReadDates :
        /\ Len(ms.dirRows[d]) >= 2
        /\ ms.dirRows[d][1].nf = 9
        /\ \E i \in 2..Len(ms.dirRows[d]) : ms.dirRows[d][i].nf < 9
        /\ ms.pc # "fatal"

====
